---- MODULE Spec2Model ----
(***************************************************************************)
(* A model of JiraOAuth3LO (src/JiraOAuth3LO.py): the token record kept in *)
(* Redis under one key, the OAuth grants of get_token, the lazily resolved *)
(* cloud id of the resource operations, and the mention extraction of      *)
(* extract_user_data.                                                      *)
(*                                                                         *)
(* Python values are modelled as follows.  An optional value (None or a    *)
(* value, an attribute that may not exist) is a sequence of length 0 or 1. *)
(* A dict is a function whose domain is its set of keys.  The text stored  *)
(* in Redis is a record [kind, members]: a JSON object text keeps its      *)
(* members as a sequence of <<key, value>> pairs, and the other kinds are  *)
(* texts json.loads rejects or parses to something that is not a dict.     *)
(* time() is read in whole seconds.                                        *)
(***************************************************************************)
EXTENDS Integers, Sequences, FiniteSets, TLC

VARIABLES
    now,        \* the clock, time() in seconds
    redis,      \* the Redis key "jira_oauth_token": [val, ex, by]
    redis_conn, \* the connection to Redis: "up", "down" or "flaky"
    cloud_id,   \* self.cloud_id: <<>> while the attribute does not exist
    last,       \* what the latest call did: its arguments, requests and result
    ticket,     \* the argument of the latest extract_user_data call
    user_data,  \* what the latest extract_user_data call returned or raised
    threads     \* where each of two threads stands in its get_token() call

vars == <<now, redis, redis_conn, cloud_id, last, ticket, user_data, threads>>

(***************************************************************************)
(* Bounds of the model.                                                    *)
(***************************************************************************)
MaxTime == 3
MaxTtl == 1

(***************************************************************************)
(* Program constants.                                                      *)
(***************************************************************************)
DefaultExpiresIn == 3600

None == <<>>
Some(x) == <<x>>


(***************************************************************************)
(* dict.get(k, default) and d[k] = v.                                      *)
(***************************************************************************)
DictGet(d, k, default) == IF k \in DOMAIN d THEN d[k] ELSE default

DictSet(d, k, v) == [x \in (DOMAIN d) \cup {k} |-> IF x = k THEN v ELSE d[x]]

(***************************************************************************)
(* json.dumps of a token dict and json.loads of a stored text.  The keys   *)
(* are written in a fixed order; loads rebuilds the dict from the members, *)
(* a later member winning over an earlier one with the same key.           *)
(***************************************************************************)
KeyOrder == <<"access_token", "refresh_token", "expires_in", "expires_at">>

RECURSIVE Members(_, _)
Members(d, ks) ==
    IF ks = <<>> THEN <<>>
    ELSE IF Head(ks) \in DOMAIN d
         THEN <<<<Head(ks), d[Head(ks)]>>>> \o Members(d, Tail(ks))
         ELSE Members(d, Tail(ks))

json_dumps(d) == [kind |-> "object", members |-> Members(d, KeyOrder)]

LastIndex(ms, k) == CHOOSE i \in 1..Len(ms) :
                        /\ ms[i][1] = k
                        /\ \A j \in (i+1)..Len(ms) : ms[j][1] # k

\* the parsed value: [type |-> "dict", d |-> ...], [type |-> "list"], or
\* [type |-> "error"] when json.loads raises
json_loads(text) ==
    IF text.kind = "object"
    THEN [type |-> "dict",
          d |-> [k \in {text.members[i][1] : i \in 1..Len(text.members)}
                    |-> text.members[LastIndex(text.members, k)][2]]]
    ELSE IF text.kind = "array"
    THEN [type |-> "list", d |-> <<>>]
    ELSE [type |-> "error", d |-> <<>>]

(***************************************************************************)
(* redis_client.get(self.token_key): the stored text, None when the key    *)
(* does not exist, or an exception (the server cannot be reached).  The    *)
(* call succeeds while the connection is up, raises while it is down, and  *)
(* does either while it is flaky.                                          *)
(***************************************************************************)
RedisConns == {"up", "down", "flaky"}

RedisGetReplies(r, conn) ==
    (IF conn # "up" THEN { [raised |-> TRUE, val |-> None] } ELSE {})
        \cup (IF conn # "down" THEN { [raised |-> FALSE, val |-> r.val] } ELSE {})

(***************************************************************************)
(* load_token: None unless the key holds the text of a dict whose          *)
(* expires_at is greater than time().  Every exception is caught.          *)
(***************************************************************************)
load_token_bug_ge(reply, t) ==
    IF reply.raised \/ reply.val = None THEN None
    ELSE IF reply.val[1].kind = "empty" THEN None
    ELSE LET parsed == json_loads(reply.val[1]) IN
         IF parsed.type # "dict" THEN None
         ELSE IF DictGet(parsed.d, "expires_at", 0) >= t
              THEN Some(parsed.d)
              ELSE None

load_token(reply, t) ==
    IF reply.raised \/ reply.val = None THEN None
    ELSE IF reply.val[1].kind = "empty" THEN None
    ELSE LET parsed == json_loads(reply.val[1]) IN
         IF parsed.type # "dict" THEN None
         ELSE IF DictGet(parsed.d, "expires_at", 0) > t
              THEN Some(parsed.d)
              ELSE None

(***************************************************************************)
(* cache_token_to_redis(token, expiry): the outcomes of the call.  The     *)
(* record gets expires_at = int(time()) + int(expiry) and is written with  *)
(* ex = expiry; a failed write raises.  The write fails while the          *)
(* connection is down and may fail while it is flaky; a Redis server       *)
(* rejects ex = 0, another client object may accept it.  by names the      *)
(* grant (or the direct call) that wrote the key.                          *)
(***************************************************************************)
RedisSetFails(expiry, conn) ==
    IF conn = "down" THEN {TRUE}
    ELSE IF conn = "flaky" \/ expiry <= 0 THEN {TRUE, FALSE}
    ELSE {FALSE}

cache_token_to_redis_bug_unstamped(token, expiry, t, r, by, conn) ==
    { IF fails THEN [ok |-> FALSE, redis |-> r]
      ELSE [ok |-> TRUE,
            redis |-> [val |-> Some(json_dumps(DictSet(token, "expires_at", t))),
                       ex |-> Some(t + expiry), by |-> by]]
      : fails \in RedisSetFails(expiry, conn) }

cache_token_to_redis_bug_merges(token, expiry, t, r, by, conn) ==
    { IF fails THEN [ok |-> FALSE, redis |-> r]
      ELSE LET old == IF r.val # None /\ r.val[1].kind = "object"
                      THEN json_loads(r.val[1]).d
                      ELSE [k \in {} |-> 0]
               new == DictSet(token, "expires_at", t + expiry)
           IN  [ok |-> TRUE,
                redis |-> [val |-> Some(json_dumps(
                                      [k \in DOMAIN old \cup DOMAIN new |->
                                         IF k \in DOMAIN new THEN new[k]
                                         ELSE old[k]])),
                           ex |-> Some(t + expiry), by |-> by]]
      : fails \in RedisSetFails(expiry, conn) }

cache_token_to_redis_bug_swallows(token, expiry, t, r, by, conn) ==
    { IF fails THEN [ok |-> TRUE, redis |-> r]
      ELSE [ok |-> TRUE,
            redis |-> [val |-> Some(json_dumps(
                                  DictSet(token, "expires_at", t + expiry))),
                       ex |-> Some(t + expiry), by |-> by]]
      : fails \in RedisSetFails(expiry, conn) }

cache_token_to_redis(token, expiry, t, r, by, conn) ==
    { IF fails THEN [ok |-> FALSE, redis |-> r]
      ELSE [ok |-> TRUE,
            redis |-> [val |-> Some(json_dumps(
                                  DictSet(token, "expires_at", t + expiry))),
                       ex |-> Some(t + expiry), by |-> by]]
      : fails \in RedisSetFails(expiry, conn) }

(***************************************************************************)
(* What the token endpoint may answer to one POST: a failure (a network    *)
(* error or a 4xx/5xx status, which raise_for_status turns into a          *)
(* RequestException) or a JSON body with access_token and, optionally,     *)
(* refresh_token and expires_in.                                           *)
(***************************************************************************)
AccessTokens == {"at1"}
RefreshTokens == {"rt1"}

TokenDict(a, r, e) ==
    [k \in {"access_token"}
           \cup (IF r = None THEN {} ELSE {"refresh_token"})
           \cup (IF e = None THEN {} ELSE {"expires_in"})
        |-> IF k = "access_token" THEN a[1]
            ELSE IF k = "refresh_token" THEN r[1] ELSE e[1]]

TokenBodies ==
    { TokenDict(Some(a), r, e) :
        a \in AccessTokens,
        r \in {None} \cup {Some(x) : x \in RefreshTokens},
        e \in {None} \cup {Some(n) : n \in 0..MaxTtl} }

TokenReplies ==
    { [failed |-> TRUE, body |-> None] }
        \cup { [failed |-> FALSE, body |-> Some(b)] : b \in TokenBodies }

(***************************************************************************)
(* The outcome of a call that acquires a token: whether it returned, what  *)
(* it returned or why it raised, the requests it sent, whether each        *)
(* redis get it made raised, the first load_token result it saw, and the   *)
(* Redis key afterwards; replies tells, for each request sent to the token *)
(* endpoint, whether it failed.                                            *)
(***************************************************************************)
Outcome(ok, ret, err, calls, reads, hit, r) ==
    [ok |-> ok, ret |-> ret, err |-> err, calls |-> calls, reads |-> reads,
     hit |-> hit, redis |-> r, replies |-> <<>>]

ReadOf(reply) == IF reply.raised THEN "raised" ELSE "ok"

(***************************************************************************)
(* call_token_api(code): one POST with grant_type authorization_code.      *)
(***************************************************************************)
call_token_api(code) == TokenReplies

(***************************************************************************)
(* The tail of both grants: the POST's answer is checked, cached with the  *)
(* lifetime it reports (3600 when it reports none) and returned.           *)
(***************************************************************************)
GrantError(call) == IF call = "token:refresh_token" THEN "refresh_failed"
                    ELSE "exchange_failed"

grant_bug_retries(http, call, reads, hit, t, r, conn) ==
    IF http.failed
    THEN UNION {
           IF again.failed
           THEN { [Outcome(FALSE, None, GrantError(call), <<call, call>>,
                           reads, hit, r)
                     EXCEPT !.replies = <<"failed", "failed">>] }
           ELSE { [Outcome(c.ok,
                           IF c.ok THEN again.body ELSE None,
                           IF c.ok THEN "" ELSE "cache_write_failed",
                           <<call, call>>, reads, hit, c.redis)
                     EXCEPT !.replies = <<"failed", "ok">>]
                  : c \in cache_token_to_redis(
                              again.body[1],
                              DictGet(again.body[1], "expires_in",
                                      DefaultExpiresIn),
                              t, r, call, conn) }
           : again \in TokenReplies }
    ELSE { [Outcome(c.ok,
                    IF c.ok THEN http.body ELSE None,
                    IF c.ok THEN "" ELSE "cache_write_failed",
                    <<call>>, reads, hit, c.redis)
              EXCEPT !.replies = <<"ok">>]
           : c \in cache_token_to_redis(
                       http.body[1],
                       DictGet(http.body[1], "expires_in", DefaultExpiresIn),
                       t, r, call, conn) }

grant(http, call, reads, hit, t, r, conn) ==
    IF http.failed
    THEN { [Outcome(FALSE, None, GrantError(call), <<call>>, reads, hit, r)
              EXCEPT !.replies = <<"failed">>] }
    ELSE { [Outcome(c.ok,
                    IF c.ok THEN http.body ELSE None,
                    IF c.ok THEN "" ELSE "cache_write_failed",
                    <<call>>, reads, hit, c.redis)
              EXCEPT !.replies = <<"ok">>]
           : c \in cache_token_to_redis(
                       http.body[1],
                       DictGet(http.body[1], "expires_in", DefaultExpiresIn),
                       t, r, call, conn) }

(***************************************************************************)
(* refresh_token(): reads the record through load_token, and raises        *)
(* "No refresh token available." unless that returns a record with a       *)
(* refresh_token; else one POST with grant_type refresh_token, and the     *)
(* answer is cached.                                                       *)
(***************************************************************************)
refresh_token_bug_posts(t, r, conn) ==
    UNION { UNION { grant(http, "token:refresh_token", <<ReadOf(reply)>>,
                          load_token(reply, t), t, r, conn)
                    : http \in TokenReplies }
            : reply \in RedisGetReplies(r, conn) }

refresh_token(t, r, conn) ==
    UNION {
        LET token_data == load_token(reply, t) IN
        IF token_data = None \/ "refresh_token" \notin DOMAIN token_data[1]
        THEN { Outcome(FALSE, None, "no_refresh_token", <<>>, <<ReadOf(reply)>>,
                       token_data, r) }
        ELSE UNION { grant(http, "token:refresh_token", <<ReadOf(reply)>>,
                           token_data, t, r, conn)
                     : http \in TokenReplies }
        : reply \in RedisGetReplies(r, conn) }

(***************************************************************************)
(* get_token(code): the cached access token on a load_token hit; else the  *)
(* code exchange when a code is given (a truthy one); else refresh_token.  *)
(***************************************************************************)
Truthy(code) == code # None /\ code[1] # ""

AccessTokenOf(o) == [o EXCEPT !.ret = IF o.ok THEN Some(o.ret[1]["access_token"])
                                      ELSE None]

get_token_bug_code_first(code, t, r, conn) ==
    UNION {
        LET token_data == load_token(reply, t) IN
        IF Truthy(code)
        THEN UNION { { AccessTokenOf(o) :
                         o \in grant(http, "token:authorization_code",
                                     <<ReadOf(reply)>>, token_data, t, r, conn) }
                     : http \in call_token_api(code) }
        ELSE IF token_data # None
        THEN IF "access_token" \in DOMAIN token_data[1]
             THEN { Outcome(TRUE, Some(token_data[1]["access_token"]), "",
                            <<>>, <<ReadOf(reply)>>, token_data, r) }
             ELSE { Outcome(FALSE, None, "key_error", <<>>, <<ReadOf(reply)>>,
                            token_data, r) }
        ELSE { AccessTokenOf([o EXCEPT !.reads = <<ReadOf(reply)>> \o o.reads,
                                       !.hit = None])
               : o \in refresh_token(t, r, conn) }
        : reply \in RedisGetReplies(r, conn) }

get_token(code, t, r, conn) ==
    UNION {
        LET token_data == load_token(reply, t) IN
        IF token_data # None
        THEN IF "access_token" \in DOMAIN token_data[1]
             THEN { Outcome(TRUE, Some(token_data[1]["access_token"]), "",
                            <<>>, <<ReadOf(reply)>>, token_data, r) }
             ELSE { Outcome(FALSE, None, "key_error", <<>>, <<ReadOf(reply)>>,
                            token_data, r) }
        ELSE IF Truthy(code)
        THEN UNION { { AccessTokenOf(o) :
                         o \in grant(http, "token:authorization_code",
                                     <<ReadOf(reply)>>, None, t, r, conn) }
                     : http \in call_token_api(code) }
        ELSE { AccessTokenOf([o EXCEPT !.reads = <<ReadOf(reply)>> \o o.reads,
                                       !.hit = None])
               : o \in refresh_token(t, r, conn) }
        : reply \in RedisGetReplies(r, conn) }

(***************************************************************************)
(* The record of the latest call: op names the method, code and arg its    *)
(* arguments; ok, ret and err its result; calls the                        *)
(* requests it sent, in order, and replies whether each of those to the    *)
(* token endpoint failed; reads its redis gets; hit what its first         *)
(* load_token returned (the last two for the token methods only); token    *)
(* the access token a resource operation got from get_token;               *)
(* disc the body the discovery endpoint answered; status the status of     *)
(* the REST answer.                                                        *)
(***************************************************************************)
NoCall == [op |-> "none", code |-> None, arg |-> None, hit |-> None,
           ok |-> TRUE, err |-> "", ret |-> None, calls |-> <<>>,
           reads |-> <<>>, token |-> None, status |-> None, disc |-> None,
           replies |-> <<>>]

Call(op, o) == [NoCall EXCEPT !.op = op, !.hit = o.hit, !.ok = o.ok,
                              !.err = o.err, !.ret = o.ret, !.calls = o.calls,
                              !.reads = o.reads, !.replies = o.replies]

Codes == {None, Some(""), Some("code1")}

(***************************************************************************)
(* Two threads share the client and its Redis key.  A thread's locals in   *)
(* a get_token() call: pc, where it stands; miss, whether get_token's      *)
(* load_token returned None; calls, the requests it has sent; body, the    *)
(* answer of its POST; ok, err and ret, its result.                        *)
(***************************************************************************)
Threads == {"t1", "t2"}

Idle == [pc |-> "idle", miss |-> FALSE, calls |-> <<>>, body |-> None,
         ok |-> TRUE, err |-> "", ret |-> None]

(***************************************************************************)
(* What the Redis key may hold when the client is constructed: nothing, a  *)
(* text that does not parse, a text that parses to a list, the empty       *)
(* string, or a token record written earlier (by another process).         *)
(***************************************************************************)
StoredDict(a, r, x) ==
    [k \in (IF a = None THEN {} ELSE {"access_token"})
           \cup (IF r = None THEN {} ELSE {"refresh_token"})
           \cup (IF x = None THEN {} ELSE {"expires_at"})
        |-> IF k = "access_token" THEN a[1]
            ELSE IF k = "refresh_token" THEN r[1] ELSE x[1]]

InitialTexts ==
    { [kind |-> "garbage", members |-> <<>>],
      [kind |-> "array", members |-> <<>>],
      [kind |-> "empty", members |-> <<>>] }
    \cup { json_dumps(StoredDict(Some("at0"), r, x)) :
             r \in {None, Some("rt0")},
             x \in {None} \cup {Some(n) : n \in 1..3} }
    \cup { json_dumps(StoredDict(None, Some("rt0"), Some(3))) }

NoKey == [val |-> None, ex |-> None, by |-> "none"]

InitClient ==
    /\ now = 1
    /\ redis \in {NoKey}
                 \cup { [val |-> Some(txt), ex |-> None, by |-> "other"]
                        : txt \in InitialTexts }
    /\ cloud_id = None
    /\ last = NoCall
    /\ ticket = None
    /\ user_data = None
    /\ threads = [th \in Threads |-> Idle]

(***************************************************************************)
(* The clock advances; a key written with ex = n is gone once n seconds    *)
(* have passed, and may already be gone within the last of them (the       *)
(* clock is read in whole seconds).                                        *)
(***************************************************************************)
Evicted(r, t) == IF r.ex # None /\ t > r.ex[1] THEN NoKey ELSE r

Tick ==
    /\ now < MaxTime
    /\ now' = now + 1
    /\ redis' = Evicted(redis, now + 1)
    /\ last' = [NoCall EXCEPT !.op = "tick"]
    /\ UNCHANGED <<redis_conn, cloud_id, ticket, user_data, threads>>

RedisExpire ==
    /\ redis.val # None
    /\ redis.ex # None
    /\ now >= redis.ex[1]
    /\ redis' = NoKey
    /\ last' = [NoCall EXCEPT !.op = "expire"]
    /\ UNCHANGED <<now, redis_conn, cloud_id, ticket, user_data, threads>>

\* the connection to Redis is lost, restored, or becomes unreliable
RedisConnection ==
    /\ \E conn \in RedisConns \ {redis_conn} : redis_conn' = conn
    /\ last' = [NoCall EXCEPT !.op = "connection"]
    /\ UNCHANGED <<now, redis, cloud_id, ticket, user_data, threads>>

(***************************************************************************)
(* The public methods of the token store and of the grants.                *)
(***************************************************************************)
SaveTokens == { TokenDict(Some(a), r, None) :
                  a \in AccessTokens,
                  r \in {None} \cup {Some(x) : x \in RefreshTokens} }

LoadToken ==
    /\ \E reply \in RedisGetReplies(redis, redis_conn) :
          last' = [NoCall EXCEPT !.op = "load_token",
                                 !.arg = Some(reply),
                                 !.reads = <<ReadOf(reply)>>,
                                 !.ret = load_token(reply, now)]
    /\ UNCHANGED <<now, redis, redis_conn, cloud_id, ticket, user_data, threads>>

CacheTokenToRedis ==
    /\ \E token \in SaveTokens, expiry \in 0..MaxTtl :
          \E c \in cache_token_to_redis(token, expiry, now, redis, "save",
                                         redis_conn) :
              /\ redis' = c.redis
              /\ last' = [NoCall EXCEPT !.op = "cache_token_to_redis",
                                        !.arg = Some([token |-> token,
                                                      expiry |-> expiry]),
                                        !.ok = c.ok,
                                        !.err = IF c.ok THEN ""
                                                ELSE "cache_write_failed"]
    /\ UNCHANGED <<now, redis_conn, cloud_id, ticket, user_data, threads>>

GetToken ==
    /\ \E code \in Codes :
          \E o \in get_token(code, now, redis, redis_conn) :
              /\ redis' = o.redis
              /\ last' = [Call("get_token", o) EXCEPT !.code = code]
    /\ UNCHANGED <<now, redis_conn, cloud_id, ticket, user_data, threads>>

RefreshToken ==
    /\ \E o \in refresh_token(now, redis, redis_conn) :
          /\ redis' = o.redis
          /\ last' = Call("refresh_token", o)
    /\ UNCHANGED <<now, redis_conn, cloud_id, ticket, user_data, threads>>

(***************************************************************************)
(* get_token() without a code, run by a thread one shared access at a      *)
(* time: get_token's load_token (idle), refresh_token's load_token         *)
(* (refresh), the POST of the refresh grant (post), the write of its       *)
(* answer (cache), the return (done).  Nothing in the method takes a lock: *)
(* a step depends on the thread's own locals, the clock and Redis only.    *)
(* Each outcome gives the threads' locals and the Redis key afterwards.    *)
(***************************************************************************)
thread_step_bug_locked(th, ths, t, r, conn) ==
    LET l == ths[th]
        Out(nl, nr) == [threads |-> [ths EXCEPT ![th] = nl], redis |-> nr]
        Fail(err) == [l EXCEPT !.pc = "done", !.ok = FALSE, !.err = err]
    IN  IF \E other \in Threads \ {th} : ths[other].pc \notin {"idle", "done"}
        THEN {}
        ELSE
        CASE l.pc = "idle" ->
               { LET token_data == load_token(reply, t) IN
                 IF token_data = None
                 THEN Out([l EXCEPT !.pc = "refresh", !.miss = TRUE], r)
                 ELSE IF "access_token" \in DOMAIN token_data[1]
                 THEN Out([l EXCEPT !.pc = "done",
                                    !.ret = Some(token_data[1]["access_token"])],
                          r)
                 ELSE Out(Fail("key_error"), r)
                 : reply \in RedisGetReplies(r, conn) }
          [] l.pc = "refresh" ->
               { LET token_data == load_token(reply, t) IN
                 IF token_data = None
                       \/ "refresh_token" \notin DOMAIN token_data[1]
                 THEN Out(Fail("no_refresh_token"), r)
                 ELSE Out([l EXCEPT !.pc = "post"], r)
                 : reply \in RedisGetReplies(r, conn) }
          [] l.pc = "post" ->
               { IF http.failed
                 THEN Out([Fail("refresh_failed")
                             EXCEPT !.calls = <<"token:refresh_token">>], r)
                 ELSE Out([l EXCEPT !.pc = "cache",
                                    !.calls = <<"token:refresh_token">>,
                                    !.body = http.body], r)
                 : http \in TokenReplies }
          [] l.pc = "cache" ->
               { IF c.ok
                 THEN Out([l EXCEPT !.pc = "done",
                                    !.ret = Some(l.body[1]["access_token"])],
                          c.redis)
                 ELSE Out(Fail("cache_write_failed"), c.redis)
                 : c \in cache_token_to_redis(
                             l.body[1],
                             DictGet(l.body[1], "expires_in", DefaultExpiresIn),
                             t, r, "token:refresh_token", conn) }
          [] OTHER -> { Out(Idle, r) }

thread_step(th, ths, t, r, conn) ==
    LET l == ths[th]
        Out(nl, nr) == [threads |-> [ths EXCEPT ![th] = nl], redis |-> nr]
        Fail(err) == [l EXCEPT !.pc = "done", !.ok = FALSE, !.err = err]
    IN  CASE l.pc = "idle" ->
               { LET token_data == load_token(reply, t) IN
                 IF token_data = None
                 THEN Out([l EXCEPT !.pc = "refresh", !.miss = TRUE], r)
                 ELSE IF "access_token" \in DOMAIN token_data[1]
                 THEN Out([l EXCEPT !.pc = "done",
                                    !.ret = Some(token_data[1]["access_token"])],
                          r)
                 ELSE Out(Fail("key_error"), r)
                 : reply \in RedisGetReplies(r, conn) }
          [] l.pc = "refresh" ->
               { LET token_data == load_token(reply, t) IN
                 IF token_data = None
                       \/ "refresh_token" \notin DOMAIN token_data[1]
                 THEN Out(Fail("no_refresh_token"), r)
                 ELSE Out([l EXCEPT !.pc = "post"], r)
                 : reply \in RedisGetReplies(r, conn) }
          [] l.pc = "post" ->
               { IF http.failed
                 THEN Out([Fail("refresh_failed")
                             EXCEPT !.calls = <<"token:refresh_token">>], r)
                 ELSE Out([l EXCEPT !.pc = "cache",
                                    !.calls = <<"token:refresh_token">>,
                                    !.body = http.body], r)
                 : http \in TokenReplies }
          [] l.pc = "cache" ->
               { IF c.ok
                 THEN Out([l EXCEPT !.pc = "done",
                                    !.ret = Some(l.body[1]["access_token"])],
                          c.redis)
                 ELSE Out(Fail("cache_write_failed"), c.redis)
                 : c \in cache_token_to_redis(
                             l.body[1],
                             DictGet(l.body[1], "expires_in", DefaultExpiresIn),
                             t, r, "token:refresh_token", conn) }
          [] OTHER -> { Out(Idle, r) }

\* another process sharing the Redis key writes it (as before construction)
RedisOtherWriter ==
    /\ \E txt \in InitialTexts :
          redis' = [val |-> Some(txt), ex |-> None, by |-> "other"]
    /\ redis' # redis
    /\ UNCHANGED <<now, redis_conn, cloud_id, last, ticket, user_data, threads>>

ThreadStep ==
    /\ \E th \in Threads :
          \E o \in thread_step(th, threads, now, redis, redis_conn) :
              /\ threads' = o.threads
              /\ redis' = o.redis
    /\ UNCHANGED <<now, redis_conn, cloud_id, last, ticket, user_data>>

(***************************************************************************)
(* What the discovery endpoint may answer to one GET: a failure, or a JSON *)
(* value: a list of entries (dicts, or a string where a dict should be),   *)
(* or a dict in place of the list.                                         *)
(***************************************************************************)
DictEntry(d) == [type |-> "dict", d |-> d, s |-> ""]
StrEntry(s) == [type |-> "str", d |-> [none |-> ""], s |-> s]

DiscoveryBodies ==
    { [type |-> "list", items |-> <<>>],
      [type |-> "list", items |-> <<DictEntry([name |-> "site"])>>],
      [type |-> "list", items |-> <<DictEntry([id |-> "cloudA"])>>],
      [type |-> "list", items |-> <<DictEntry([id |-> "cloudB"]),
                                    DictEntry([id |-> "cloudA"])>>],
      [type |-> "list", items |-> <<StrEntry("identity")>>],
      [type |-> "dict", items |-> <<>>] }

DiscoveryReplies ==
    { [failed |-> TRUE, body |-> None] }
        \cup { [failed |-> FALSE, body |-> Some(b)] : b \in DiscoveryBodies }

\* resources and isinstance(resources, list) and 'id' in resources[0];
\* on a str entry `in` is the substring test
HasId(entry) == IF entry.type = "dict" THEN "id" \in DOMAIN entry.d
                ELSE entry.s = "identity"

FirstHasId(resources) ==
    /\ resources.type = "list"
    /\ resources.items # <<>>
    /\ HasId(resources.items[1])

(***************************************************************************)
(* get_accessible_resources(access_token): one GET; stores the id of the   *)
(* first entry as self.cloud_id and returns the resources.  A failed GET   *)
(* raises; so does resources[0]['id'] on an entry that is a str.           *)
(***************************************************************************)
get_accessible_resources_bug_stores_none(reply, cid) ==
    IF reply.failed
    THEN [raised |-> TRUE, resources |-> None, cloud_id |-> cid]
    ELSE IF reply.body[1].type = "list" /\ reply.body[1].items # <<>>
    THEN IF reply.body[1].items[1].type = "dict"
         THEN [raised |-> FALSE, resources |-> reply.body,
               cloud_id |-> Some(DictGet(reply.body[1].items[1].d, "id", "None"))]
         ELSE [raised |-> TRUE, resources |-> None, cloud_id |-> cid]
    ELSE [raised |-> FALSE, resources |-> reply.body, cloud_id |-> cid]

get_accessible_resources(reply, cid) ==
    IF reply.failed
    THEN [raised |-> TRUE, resources |-> None, cloud_id |-> cid]
    ELSE IF FirstHasId(reply.body[1])
    THEN IF reply.body[1].items[1].type = "dict"
         THEN [raised |-> FALSE, resources |-> reply.body,
               cloud_id |-> Some(reply.body[1].items[1].d["id"])]
         ELSE [raised |-> TRUE, resources |-> None, cloud_id |-> cid]
    ELSE [raised |-> FALSE, resources |-> reply.body, cloud_id |-> cid]

(***************************************************************************)
(* What the issue REST API may answer: a network error (status None) or a  *)
(* response with a status.  raise_for_status raises on 4xx and 5xx.        *)
(***************************************************************************)
RestStatuses == {200, 204, 304, 404, 500}

RestReplies ==
    { [failed |-> TRUE, status |-> None] }
        \cup { [failed |-> FALSE, status |-> Some(n)] : n \in RestStatuses }

raise_for_status_bug_not_2xx(status) == status < 200 \/ status >= 300

raise_for_status(status) == 400 <= status /\ status < 600

(***************************************************************************)
(* The preamble the resource operations share: get_token(), then, when     *)
(* self.cloud_id does not exist, get_accessible_resources and the check of *)
(* its result.  go tells whether the operation goes on to its REST call.   *)
(***************************************************************************)
Pre(go, err, g, discovered, disc, cid) ==
    [go |-> go, err |-> err,
     calls |-> IF discovered THEN Append(g.calls, "discovery") ELSE g.calls,
     disc |-> disc, token |-> g.ret, redis |-> g.redis, cloud_id |-> cid]

resolve_cloud_id_bug_no_check(g, cid) ==
    IF cid # None
    THEN { Pre(TRUE, "", g, FALSE, None, cid) }
    ELSE { LET a == get_accessible_resources(reply, cid) IN
           IF a.raised
           THEN Pre(FALSE, "discovery_failed", g, TRUE, reply.body, a.cloud_id)
           ELSE Pre(TRUE, "", g, TRUE, reply.body, a.cloud_id)
           : reply \in DiscoveryReplies }

resolve_cloud_id_bug_always(g, cid) ==
    { LET a == get_accessible_resources(reply, cid) IN
      IF a.raised
      THEN Pre(FALSE, "discovery_failed", g, TRUE, reply.body, a.cloud_id)
      ELSE IF FirstHasId(a.resources[1])
      THEN Pre(TRUE, "", g, TRUE, reply.body,
               Some(a.resources[1].items[1].d["id"]))
      ELSE Pre(FALSE, "no_cloud_id", g, TRUE, reply.body, a.cloud_id)
      : reply \in DiscoveryReplies }

resolve_cloud_id(g, cid) ==
    IF cid # None
    THEN { Pre(TRUE, "", g, FALSE, None, cid) }
    ELSE { LET a == get_accessible_resources(reply, cid) IN
           IF a.raised
           THEN Pre(FALSE, "discovery_failed", g, TRUE, reply.body, a.cloud_id)
           ELSE IF FirstHasId(a.resources[1])
           THEN Pre(TRUE, "", g, TRUE, reply.body,
                    Some(a.resources[1].items[1].d["id"]))
           ELSE Pre(FALSE, "no_cloud_id", g, TRUE, reply.body, a.cloud_id)
           : reply \in DiscoveryReplies }

preamble(t, r, cid, conn) ==
    UNION { IF ~g.ok
            THEN { Pre(FALSE, g.err, g, FALSE, None, cid) }
            ELSE resolve_cloud_id(g, cid)
            : g \in get_token(None, t, r, conn) }

(***************************************************************************)
(* A resource operation: the preamble, one REST call, raise_for_status,    *)
(* and the operation's return value: status_code == 204 for update_ticket  *)
(* and delete_ticket; the others return the body (or a list of it), which  *)
(* is not modelled: their ret stays None.                                  *)
(***************************************************************************)
ReturnsStatus(op) == op \in {"update_ticket", "delete_ticket"}

Returned(op, status) == IF ReturnsStatus(op) THEN Some(status = 204) ELSE None

ResourceOp(op) ==
    /\ \E p \in preamble(now, redis, cloud_id, redis_conn) :
          /\ redis' = p.redis
          /\ cloud_id' = p.cloud_id
          /\ IF ~p.go
             THEN last' = [NoCall EXCEPT !.op = op, !.ok = FALSE, !.err = p.err,
                                         !.calls = p.calls, !.disc = p.disc,
                                         !.token = p.token]
             ELSE \E rest \in RestReplies :
                    LET raised == rest.failed \/ raise_for_status(rest.status[1]) IN
                    last' = [NoCall EXCEPT
                               !.op = op,
                               !.ok = ~raised,
                               !.err = IF raised THEN "http_error" ELSE "",
                               !.ret = IF raised THEN None
                                       ELSE Returned(op, rest.status[1]),
                               !.calls = Append(p.calls, "rest"),
                               !.status = rest.status,
                               !.disc = p.disc,
                               !.token = p.token]
    /\ UNCHANGED <<now, redis_conn, ticket, user_data, threads>>

CreateTicket == ResourceOp("create_ticket")
UpdateTicket == ResourceOp("update_ticket")
DeleteTicket == ResourceOp("delete_ticket")
GetTicket == ResourceOp("get_ticket")
ListTickets == ResourceOp("list_tickets")
ListProjects == ResourceOp("list_projects")
AddComment == ResourceOp("add_comment")
GetComments == ResourceOp("get_comments")

ResourceOps == {"create_ticket", "update_ticket", "delete_ticket", "get_ticket",
                "list_tickets", "list_projects", "add_comment", "get_comments"}

\* the public method get_accessible_resources called directly
GetAccessibleResources ==
    /\ \E reply \in DiscoveryReplies :
          LET a == get_accessible_resources(reply, cloud_id) IN
          /\ cloud_id' = a.cloud_id
          /\ last' = [NoCall EXCEPT !.op = "get_accessible_resources",
                                    !.ok = ~a.raised,
                                    !.err = IF a.raised THEN "discovery_failed"
                                            ELSE "",
                                    !.ret = a.resources,
                                    !.disc = reply.body,
                                    !.calls = <<"discovery">>]
    /\ UNCHANGED <<now, redis, redis_conn, ticket, user_data, threads>>

(***************************************************************************)
(* react_to_comment(comment_id, reaction): logs a warning and raises       *)
(* NotImplementedError; it calls nothing else.                             *)
(***************************************************************************)
CommentIds == {"10001", ""}
Reactions == {"thumbsup", ""}

react_to_comment_bug_attempts(comment_id, reaction, t, r, cid, conn) ==
    { [ok |-> FALSE, err |-> "not_implemented", calls |-> p.calls,
       token |-> p.token, redis |-> p.redis, cloud_id |-> p.cloud_id]
      : p \in preamble(t, r, cid, conn) }

react_to_comment(comment_id, reaction, t, r, cid, conn) ==
    { [ok |-> FALSE, err |-> "not_implemented", calls |-> <<>>,
       token |-> None, redis |-> r, cloud_id |-> cid] }

ReactToComment ==
    /\ \E comment_id \in CommentIds, reaction \in Reactions :
          \E o \in react_to_comment(comment_id, reaction, now, redis, cloud_id,
                                   redis_conn) :
              /\ redis' = o.redis
              /\ cloud_id' = o.cloud_id
              /\ last' = [NoCall EXCEPT !.op = "react_to_comment",
                                        !.arg = Some([comment_id |-> comment_id,
                                                      reaction |-> reaction]),
                                        !.ok = o.ok,
                                        !.err = o.err,
                                        !.calls = o.calls,
                                        !.token = o.token]
    /\ UNCHANGED <<now, redis_conn, ticket, user_data, threads>>

(***************************************************************************)
(* extract_user_data.  A JSON value is a record [t, s, d, l]: a str keeps  *)
(* in s the sequence of its pieces (one piece a character where the text   *)
(* is scanned by the regular expression), a dict keeps in d its function   *)
(* from keys to values, a list keeps in l its sequence of values.          *)
(***************************************************************************)
NoKeys == [k \in {} |-> k]

JStr(s) == [t |-> "str", s |-> <<s>>, d |-> NoKeys, l |-> <<>>]
JText(chars) == [t |-> "str", s |-> chars, d |-> NoKeys, l |-> <<>>]
JDict(f) == [t |-> "dict", s |-> <<>>, d |-> f, l |-> <<>>]
JList(l) == [t |-> "list", s |-> <<>>, d |-> NoKeys, l |-> l]
JEmptyDict == JDict(NoKeys)

RECURSIVE Join(_)
Join(pieces) == IF pieces = <<>> THEN "" ELSE Head(pieces) \o Join(Tail(pieces))

\* d.get(k, default) on a JSON dict
JGet(j, k, default) == IF k \in DOMAIN j.d THEN j.d[k] ELSE default

\* the truth value of a JSON value: an empty str, dict or list is false
JTruthy(j) == IF j.t = "str" THEN Join(j.s) # ""
              ELSE IF j.t = "dict" THEN DOMAIN j.d # {}
              ELSE j.l # <<>>

(***************************************************************************)
(* re.findall(r'@([\w.\-]+)', text): at each "@" followed by at least one  *)
(* character of the class, the longest run of such characters.             *)
(***************************************************************************)
HandleChars == {"a", "b", ".", "-"}

RECURSIVE RunEnd(_, _)
RunEnd(s, i) == IF i <= Len(s) /\ s[i] \in HandleChars THEN RunEnd(s, i + 1) ELSE i

RECURSIVE FindAll(_, _)
FindAll(s, i) ==
    IF i > Len(s) THEN {}
    ELSE IF s[i] = "@" /\ RunEnd(s, i + 1) > i + 1
    THEN {Some(Join(SubSeq(s, i + 1, RunEnd(s, i + 1) - 1)))}
             \cup FindAll(s, RunEnd(s, i + 1))
    ELSE FindAll(s, i + 1)

re_findall(text) == FindAll(text.s, 1)

(***************************************************************************)
(* extract_mentions_adf: the text attribute of every dict of type mention  *)
(* that has attrs, in the value and in every dict or list inside it.       *)
(***************************************************************************)
RECURSIVE extract_mentions_adf(_)
extract_mentions_adf(adf) ==
    IF adf.t = "dict"
    THEN (IF /\ "type" \in DOMAIN adf.d
             /\ adf.d["type"] = JStr("mention")
             /\ "attrs" \in DOMAIN adf.d
          THEN {IF "text" \in DOMAIN adf.d["attrs"].d
                THEN Some(Join(adf.d["attrs"].d["text"].s))
                ELSE None}
          ELSE {})
         \cup UNION { extract_mentions_adf(adf.d[k]) :
                        k \in {x \in DOMAIN adf.d : adf.d[x].t \in {"dict", "list"}} }
    ELSE IF adf.t = "list"
    THEN UNION { extract_mentions_adf(adf.l[i]) : i \in 1..Len(adf.l) }
    ELSE {}

\* assignee.get('displayName') or assignee.get('name'), None without a person
person_name(fields, k) ==
    IF k \notin DOMAIN fields.d \/ ~JTruthy(fields.d[k]) THEN None
    ELSE LET person == fields.d[k] IN
         IF "displayName" \in DOMAIN person.d /\ JTruthy(person.d["displayName"])
         THEN Some(Join(person.d["displayName"].s))
         ELSE IF "name" \in DOMAIN person.d
              THEN Some(Join(person.d["name"].s))
              ELSE None

(***************************************************************************)
(* extract_user_data(ticket).  extract_mentions_adf is a local function    *)
(* defined only in the branch taken when the description is a dict with    *)
(* 'content'; a comment body that is a dict calls it, and the call raises  *)
(* (the name is unbound) when that branch was not taken.                   *)
(***************************************************************************)
RECURSIVE comment_mentions(_, _, _)
\* the mentions of comments[i..], or <<>> (no set) when the walk raises
comment_mentions(comments, i, adf_defined) ==
    IF i > Len(comments) THEN Some({})
    ELSE LET body == JGet(comments[i], "body", JText(<<>>))
             rest == comment_mentions(comments, i + 1, adf_defined)
         IN  IF body.t = "dict"
             THEN IF adf_defined /\ rest # None
                  THEN Some(extract_mentions_adf(body) \cup rest[1])
                  ELSE None
             ELSE IF body.t = "str"
             THEN IF rest # None
                  THEN Some(re_findall(body) \cup rest[1])
                  ELSE None
             ELSE rest

Raised == [raised |-> TRUE, assignee |-> None, reporter |-> None, mentions |-> {}]

extract_user_data(tk) ==
    LET fields == JGet(tk, "fields", JEmptyDict)
        description == JGet(fields, "description", JText(<<>>))
        adf_defined == description.t = "dict" /\ "content" \in DOMAIN description.d
        from_description ==
            IF adf_defined THEN extract_mentions_adf(description)
            ELSE IF description.t = "str" THEN re_findall(description)
            ELSE {}
        comments == JGet(JGet(fields, "comment", JEmptyDict), "comments", JList(<<>>))
        from_comments == comment_mentions(comments.l, 1, adf_defined)
    IN  IF from_comments = None THEN Raised
        ELSE [raised |-> FALSE,
              assignee |-> person_name(fields, "assignee"),
              reporter |-> person_name(fields, "reporter"),
              mentions |-> from_description \cup from_comments[1]]

(***************************************************************************)
(* The tickets extract_user_data is applied to: a description and up to    *)
(* MaxComments comment bodies, each a plain text or a structured document  *)
(* with its mention nodes up to MaxDepth paragraphs deep.                  *)
(***************************************************************************)
MaxDepth == 1
MaxComments == 2

MentionNode(h) == JDict([type |-> JStr("mention"),
                         attrs |-> JDict([id |-> JStr("u1"), text |-> JStr(h)])])
TextNode == JDict([type |-> JStr("text"), text |-> JStr("hello")])
Paragraph(children) == JDict([type |-> JStr("paragraph"), content |-> JList(children)])
Doc(children) == JDict([type |-> JStr("doc"), content |-> JList(children)])

RECURSIVE Nest(_, _)
Nest(node, depth) == IF depth = 0 THEN node ELSE Paragraph(<<Nest(node, depth - 1)>>)

Docs ==
    { Doc(<<Nest(leaf, d)>>) : leaf \in {TextNode, MentionNode("a"), MentionNode("b")},
                               d \in 0..MaxDepth }
    \cup { Doc(<<MentionNode("a"), Paragraph(<<TextNode, MentionNode("b")>>)>>) }

Texts == { JText(<<>>),
           JText(<<"a">>),
           JText(<<"@", "a">>),
           JText(<<"@", "b", " ", "@">>),
           JText(<<"@", "a", ".", "b">>),
           JText(<<"@", "@", "a", " ", "@", "b">>) }

Bodies == Texts \cup Docs

RECURSIVE SeqsUpTo(_, _)
SeqsUpTo(S, n) ==
    IF n = 0 THEN {<<>>}
    ELSE SeqsUpTo(S, n - 1)
            \cup { Append(q, x) : q \in {p \in SeqsUpTo(S, n - 1) : Len(p) = n - 1},
                                  x \in S }

Comment(body) == JDict([id |-> JStr("10001"), body |-> body])

People == { [reporter |-> JDict([displayName |-> JStr("Jane Smith")])],
            [assignee |-> JDict([displayName |-> JStr("John Doe")]),
             reporter |-> JDict([name |-> JStr("jsmith")])] }

Ticket(people, description, bodies) ==
    JDict([fields |->
        JDict([k \in (DOMAIN people) \cup {"description", "comment"} |->
                 IF k = "description" THEN description
                 ELSE IF k = "comment"
                 THEN JDict([comments |->
                               JList([i \in 1..Len(bodies) |-> Comment(bodies[i])])])
                 ELSE people[k]])])

Tickets == { Ticket(pp, d, bs) : pp \in People, d \in Bodies,
                                 bs \in SeqsUpTo(Bodies, MaxComments) }

ExtractUserData ==
    /\ ticket # None
    /\ user_data = None
    /\ user_data' = Some(extract_user_data(ticket[1]))
    /\ UNCHANGED <<now, redis, redis_conn, cloud_id, last, ticket, threads>>

InitExtract ==
    /\ now = 1
    /\ redis = NoKey
    /\ redis_conn = "up"
    /\ cloud_id = None
    /\ last = NoCall
    /\ ticket \in { Some(tk) : tk \in Tickets }
    /\ user_data = None
    /\ threads = [th \in Threads |-> Idle]

NextExtract == ExtractUserData

SpecExtract == InitExtract /\ [][NextExtract]_vars

(***************************************************************************)
(* Spec: the token store and the grants, over a Redis connection that may  *)
(* fail.  SpecResource: the resource operations of a client whose Redis    *)
(* connection is up, with get_token to fill the cache.  SpecExtract        *)
(* (above): extract_user_data applied to a ticket.                         *)
(***************************************************************************)
Init == InitClient /\ redis_conn \in RedisConns

Next ==
    \/ Tick
    \/ RedisExpire
    \/ RedisConnection
    \/ LoadToken
    \/ CacheTokenToRedis
    \/ GetToken
    \/ RefreshToken

Spec == Init /\ [][Next]_vars

InitResource == InitClient /\ redis_conn = "up"

NextResource ==
    \/ Tick
    \/ RedisExpire
    \/ GetToken
    \/ GetAccessibleResources
    \/ CreateTicket
    \/ UpdateTicket
    \/ DeleteTicket
    \/ GetTicket
    \/ ListTickets
    \/ ListProjects
    \/ AddComment
    \/ GetComments
    \/ ReactToComment

SpecResource == InitResource /\ [][NextResource]_vars

(***************************************************************************)
(* The client on a Redis of any reliability: get_token and resource        *)
(* operations (which share one preamble and differ in their REST call      *)
(* only; two of them stand here for the eight), with the clock and the     *)
(* key's eviction.                                                         *)
(***************************************************************************)
InitFrame == InitClient /\ redis_conn \in RedisConns

NextFrame ==
    \/ Tick
    \/ RedisExpire
    \/ GetToken
    \/ UpdateTicket
    \/ GetComments

SpecFrame == InitFrame /\ [][NextFrame]_vars

(***************************************************************************)
(* Two threads calling get_token() on the shared client, on a Redis of any *)
(* reliability that other processes write too.                             *)
(***************************************************************************)
InitRace == InitClient /\ redis_conn \in RedisConns

NextRace ==
    \/ ThreadStep
    \/ RedisOtherWriter
    \/ Tick
    \/ RedisExpire

SpecRace == InitRace /\ [][NextRace]_vars

(***************************************************************************)
(* The claims about the token store and the grants, under Spec.            *)
(***************************************************************************)
\* the dict a stored JSON object text holds
CachedDict(r) == json_loads(r.val[1]).d

IsRecord(r) == r.val # None /\ r.val[1].kind = "object"

ExpiredWithRefreshToken(r, t) ==
    /\ IsRecord(r)
    /\ "refresh_token" \in DOMAIN CachedDict(r)
    /\ "expires_at" \in DOMAIN CachedDict(r)
    /\ CachedDict(r)["expires_at"] <= t

Unexpired(r, t) ==
    /\ IsRecord(r)
    /\ "expires_at" \in DOMAIN CachedDict(r)
    /\ CachedDict(r)["expires_at"] > t

\* C1: get_token() without a code, called while the cache holds a record
\* that is expired (expires_at <= now) but has a refresh_token, sends exactly
\* one refresh grant and, when it returns, has cached the answer and returns
\* the answer's access token.
C1_ExpiredRecordIsRefreshed ==
    [][ (/\ last'.op = "get_token"
         /\ last'.code = None
         /\ ExpiredWithRefreshToken(redis, now))
        => /\ last'.calls = <<"token:refresh_token">>
           /\ last'.ok => /\ redis'.by = "token:refresh_token"
                          /\ IsRecord(redis')
                          /\ last'.ret = Some(CachedDict(redis')["access_token"])
      ]_vars

\* C2: get_token(code) with a code, on an empty cache, sends exactly one
\* code exchange and no other request, and when it returns the answer is in
\* the cache (stamped with expires_at = now + the lifetime the answer
\* reports, 3600 when it reports none) and its access token is returned;
\* when it raises the cache is as before.  Any get_token call, with any code
\* or none, made while the record a code exchange cached is unexpired (and
\* read from the cache) returns the cached access token, sends no request
\* and leaves the cache as it is.
C2_ExchangeOnceThenCacheHit ==
    [][ last'.op = "get_token"
        => /\ (Truthy(last'.code) /\ redis.val = None)
              => /\ last'.calls = <<"token:authorization_code">>
                 /\ last'.ok
                    => /\ redis'.by = "token:authorization_code"
                       /\ IsRecord(redis')
                       /\ last'.ret = Some(CachedDict(redis')["access_token"])
                       /\ CachedDict(redis')["expires_at"]
                            = now + DictGet(CachedDict(redis'), "expires_in",
                                            DefaultExpiresIn)
                       /\ redis'.ex = Some(CachedDict(redis')["expires_at"])
                 /\ ~last'.ok => redis' = redis
           /\ (/\ redis.by = "token:authorization_code"
               /\ Unexpired(redis, now)
               /\ last'.reads[1] = "ok")
              => /\ last'.ok
                 /\ last'.calls = <<>>
                 /\ last'.ret = Some(CachedDict(redis)["access_token"])
                 /\ redis' = redis
      ]_vars

\* a get_token call has just returned the access token of the unexpired
\* record a code exchange cached, without any request
C2_Witness ==
    /\ last.op = "get_token"
    /\ last.ok
    /\ last.calls = <<>>
    /\ last.hit # None
    /\ redis.by = "token:authorization_code"
    /\ last.ret = Some(CachedDict(redis)["access_token"])

\* C3: get_token() without a code, on a cache with no record, raises with
\* "No refresh token available.", sends no request to the token endpoint and
\* leaves the cache as it is.
C3_NoRefreshTokenFails ==
    [][ (/\ last'.op = "get_token"
         /\ ~Truthy(last'.code)
         /\ redis.val = None)
        => /\ ~last'.ok
           /\ last'.err = "no_refresh_token"
           /\ last'.calls = <<>>
           /\ redis' = redis
      ]_vars

\* get_token() has just raised for want of a refresh token, on an empty cache
C3_Witness ==
    /\ last.op = "get_token"
    /\ last.code = None
    /\ ~last.ok
    /\ last.err = "no_refresh_token"
    /\ last.calls = <<>>
    /\ redis.val = None

\* the redis get answered the text of a JSON object with an expires_at
\* member greater than t
LiveRecord(reply, t) ==
    /\ ~reply.raised
    /\ reply.val # None
    /\ reply.val[1].kind = "object"
    /\ \E i \in 1..Len(reply.val[1].members) :
          /\ reply.val[1].members[i][1] = "expires_at"
          /\ reply.val[1].members[i][2] > t

\* C4: load_token returns the cached record unchanged (the record whose
\* JSON text is the cached text) when its expires_at is greater than the
\* current time, and returns None, without raising, in every other case: the
\* key is missing, the get raises, the text is empty or does not parse to a
\* dict, the record has no expires_at, or expires_at <= now.
C4_LoadReturnsLiveRecordOnly ==
    last.op = "load_token"
    => IF LiveRecord(last.arg[1], now)
       THEN /\ last.ret # None
            /\ json_dumps(last.ret[1]) = last.arg[1].val[1]
       ELSE last.ret = None

\* load_token has just returned a record
C4_Witness ==
    /\ last.op = "load_token"
    /\ last.ret # None
    /\ last.ret[1]["expires_at"] > now

SavedIsLoadable(min_ttl) ==
    (/\ last.op = "cache_token_to_redis"
     /\ last.ok
     /\ last.arg[1].expiry >= min_ttl)
    => /\ redis.ex = Some(now + last.arg[1].expiry)
       /\ load_token([raised |-> FALSE, val |-> redis.val], now)
            = Some(DictSet(last.arg[1].token, "expires_at",
                           now + last.arg[1].expiry))

\* C5 as claimed: for every record and every ttl_seconds, after
\* cache_token_to_redis(record, ttl_seconds) has returned, the key is written
\* with expiry ttl_seconds and a load_token at the same time returns the
\* record with expires_at = now + ttl_seconds.
C5_SaveThenLoad_EveryTtl == SavedIsLoadable(0)

\* C5 as amended: the same for every ttl_seconds >= 1.
C5_SaveThenLoad_PositiveTtl == SavedIsLoadable(1)

\* cache_token_to_redis has just written a record with a positive ttl
C5_Witness ==
    /\ last.op = "cache_token_to_redis"
    /\ last.ok
    /\ last.arg[1].expiry >= 1
    /\ redis.by = "save"

(***************************************************************************)
(* The claims about the cloud id and the resource operations, under        *)
(* SpecResource.                                                           *)
(***************************************************************************)
\* the discovery answer is a list whose first entry is a dict with an id
FirstEntryId(body) ==
    IF /\ body.type = "list"
       /\ body.items # <<>>
       /\ body.items[1].type = "dict"
       /\ "id" \in DOMAIN body.items[1].d
    THEN Some(body.items[1].d["id"])
    ELSE None

Count(calls, c) == Cardinality({i \in 1..Len(calls) : calls[i] = c})

\* C6 as claimed: once set, the cloud id is never changed by any step.
C6_CloudIdNeverOverwritten ==
    [][ cloud_id # None => cloud_id' = cloud_id ]_vars

\* C6 as amended: once set, the cloud id is changed by no resource operation
\* (and by no token method): the only step that changes it is a direct call
\* of get_accessible_resources whose answer has an id in its first entry,
\* which replaces the cloud id by that id.
C6_CloudIdReplacedOnlyByDiscoveryCall ==
    [][ (cloud_id # None /\ cloud_id' # cloud_id)
        => /\ last'.op = "get_accessible_resources"
           /\ last'.disc # None
           /\ cloud_id' = FirstEntryId(last'.disc[1])
      ]_vars

\* a resource operation has just run with the cloud id already set
C6_Witness ==
    /\ last.op \in ResourceOps
    /\ last.token # None
    /\ Count(last.calls, "discovery") = 0
    /\ Count(last.calls, "rest") = 1
    /\ cloud_id # None

\* C7: a resource operation sends nothing before get_token() has returned a
\* token, and raises when get_token raises; with a token and the cloud id
\* unset, its first request is the discovery GET; and when the discovery
\* answer is empty or has no id in its first entry, the operation raises,
\* sends no REST request and leaves the cloud id unset.
C7_PreambleOrder ==
    [][ last'.op \in ResourceOps
        => /\ last'.token = None
              => /\ ~last'.ok
                 /\ Count(last'.calls, "discovery") = 0
                 /\ Count(last'.calls, "rest") = 0
                 /\ cloud_id' = cloud_id
           /\ (last'.token # None /\ cloud_id = None)
              => /\ Count(last'.calls, "discovery") = 1
                 /\ \A i \in 1..Len(last'.calls) :
                       last'.calls[i] = "rest"
                       => \E j \in 1..(i - 1) : last'.calls[j] = "discovery"
           /\ (/\ last'.token # None
               /\ cloud_id = None
               /\ last'.disc # None
               /\ FirstEntryId(last'.disc[1]) = None)
              => /\ ~last'.ok
                 /\ Count(last'.calls, "rest") = 0
                 /\ cloud_id' = None
      ]_vars

\* a resource operation has just raised on a discovery answer without an id
C7_Witness ==
    /\ last.op \in ResourceOps
    /\ last.token # None
    /\ last.err = "no_cloud_id"
    /\ last.disc # None
    /\ FirstEntryId(last.disc[1]) = None
    /\ cloud_id = None

\* C8: a resource operation sends a discovery GET only while the cloud id is
\* unset, and at most one; one that has its token sends one whenever the
\* cloud id is unset; a discovery that succeeds sets the cloud id (so no
\* later resource operation sends one), and one that fails leaves it unset
\* (so the next resource operation that has its token sends one again).
C8_DiscoveryOnlyWhileUnset ==
    [][ last'.op \in ResourceOps
        => /\ Count(last'.calls, "discovery") > 0
              => cloud_id = None /\ Count(last'.calls, "discovery") = 1
           /\ (cloud_id = None /\ last'.token # None)
              => Count(last'.calls, "discovery") = 1
           /\ Count(last'.calls, "discovery") > 0
              => IF last'.disc # None /\ FirstEntryId(last'.disc[1]) # None
                 THEN cloud_id' = FirstEntryId(last'.disc[1])
                 ELSE cloud_id' = None /\ ~last'.ok
           /\ cloud_id # None => cloud_id' = cloud_id
      ]_vars

\* a resource operation's discovery GET has just failed, the cloud id is
\* still unset
C8_Witness ==
    /\ last.op \in ResourceOps
    /\ Count(last.calls, "discovery") = 1
    /\ last.err = "discovery_failed"
    /\ last.disc = None
    /\ cloud_id = None

StatusOp == last.op \in {"update_ticket", "delete_ticket"} /\ last.status # None

MentionsOf(value) ==
    IF value.t = "str" THEN re_findall(value)
    ELSE IF value.t = "dict" THEN extract_mentions_adf(value)
    ELSE {}

MentionsOfTicket(tk) ==
    LET fields == tk.d["fields"]
        comments == fields.d["comment"].d["comments"].l
    IN  MentionsOf(fields.d["description"])
            \cup UNION { MentionsOf(comments[i].d["body"]) : i \in 1..Len(comments) }

\* C10: extract_user_data returns, for every combination of plain-text and
\* structured description and comment bodies, the union of the mentions of
\* the description and of every comment body.
C10_MentionsOfEveryForm ==
    user_data # None
    => /\ ~user_data[1].raised
       /\ user_data[1].mentions = MentionsOfTicket(ticket[1])

(***************************************************************************)
(* The claim about react_to_comment, under SpecResource.                   *)
(***************************************************************************)
\* C11: react_to_comment raises NotImplementedError for every comment id and
\* reaction and in every state of the client (cache empty or not, cloud id
\* set or not), without a token acquired, a request sent, or a change of the
\* cache or of the cloud id.
C11_ReactToCommentNeverAttempted ==
    [][ last'.op = "react_to_comment"
        => /\ ~last'.ok
           /\ last'.err = "not_implemented"
           /\ last'.ret = None
           /\ last'.calls = <<>>
           /\ last'.token = None
           /\ redis' = redis
           /\ cloud_id' = cloud_id
      ]_vars

\* react_to_comment has just raised on a client whose cloud id is unset and
\* whose cache holds an unexpired record (a resource operation would send
\* its discovery GET from here)
C11_Witness ==
    /\ last.op = "react_to_comment"
    /\ last.err = "not_implemented"
    /\ last.arg[1].reaction = "thumbsup"
    /\ cloud_id = None
    /\ Unexpired(redis, now)

(***************************************************************************)
(* The claims about failures of the token endpoint and of the cache write, *)
(* under Spec.                                                             *)
(***************************************************************************)
TokenCalls == {"token:authorization_code", "token:refresh_token"}

C13_CacheWriteFailureIsRaised ==
    [][ /\ (last'.op = "cache_token_to_redis" /\ redis_conn = "down")
           => ~last'.ok /\ redis' = redis
        /\ (/\ last'.op = "get_token"
            /\ last'.replies # <<>>
            /\ last'.replies[Len(last'.replies)] = "ok")
           => /\ redis_conn = "down" => ~last'.ok
              /\ last'.ok
                 => /\ redis'.by = last'.calls[1]
                    /\ IsRecord(redis')
                    /\ last'.ret = Some(CachedDict(redis')["access_token"])
                    /\ CachedDict(redis')["expires_at"]
                         = now + DictGet(CachedDict(redis'), "expires_in",
                                         DefaultExpiresIn)
              /\ ~last'.ok
                 => /\ last'.err = "cache_write_failed"
                    /\ last'.ret = None
                    /\ redis' = redis
      ]_vars

\* get_token(code) has just raised because the record of the token it was
\* granted could not be written
C13_Witness ==
    /\ last.op = "get_token"
    /\ last.calls = <<"token:authorization_code">>
    /\ last.replies = <<"ok">>
    /\ ~last.ok
    /\ last.err = "cache_write_failed"
    /\ redis_conn = "down"

(***************************************************************************)
(* The claim about what replaces the cached record, under SpecFrame.       *)
(***************************************************************************)
\* the records a grant may write at time t: an answer of the token
\* endpoint, stamped with expires_at
GrantedRecords(t) ==
    { DictSet(b, "expires_at", t + DictGet(b, "expires_in", DefaultExpiresIn))
      : b \in TokenBodies }

HasTokenCall(calls) == \E i \in 1..Len(calls) : calls[i] \in TokenCalls

\* C15 as claimed: a get_token call that raises, and every resource
\* operation, leave the Redis key exactly as it was before the call.
C15_FailuresAndResourceOpsKeepCache ==
    [][ ((last'.op = "get_token" /\ ~last'.ok) \/ last'.op \in ResourceOps)
        => redis' = redis
      ]_vars

\* C15 as amended: a get_token call that raises leaves the Redis key exactly
\* as it was, and so does a resource operation whose get_token() sends no
\* grant; the key changes only when Redis evicts it or when a grant has
\* succeeded, in a get_token call or in the get_token() of a resource
\* operation, and then the whole record is the answer of the token
\* endpoint stamped with expires_at, holding the access token the call got.
C15_CacheReplacedOnlyByGrant ==
    [][ /\ (last'.op = "get_token" /\ ~last'.ok) => redis' = redis
        /\ (last'.op \in ResourceOps /\ ~HasTokenCall(last'.calls))
           => redis' = redis
        /\ redis' # redis
           => \/ last'.op \in {"tick", "expire"} /\ redis' = NoKey
              \/ /\ last'.op \in {"get_token"} \cup ResourceOps
                 /\ HasTokenCall(last'.calls)
                 /\ redis'.by = last'.calls[1]
                 /\ IsRecord(redis')
                 /\ CachedDict(redis') \in GrantedRecords(now)
                 /\ redis'.ex = Some(CachedDict(redis')["expires_at"])
                 /\ IF last'.op = "get_token"
                    THEN /\ last'.ok
                         /\ last'.ret = Some(CachedDict(redis')["access_token"])
                    ELSE last'.token = Some(CachedDict(redis')["access_token"])
      ]_vars

\* a resource operation has just replaced the cached record: its get_token()
\* performed a refresh grant
C15_Witness ==
    /\ last.op \in ResourceOps
    /\ last.calls # <<>>
    /\ last.calls[1] = "token:refresh_token"
    /\ last.token # None
    /\ redis.by = "token:refresh_token"
    /\ IsRecord(redis)
    /\ last.token = Some(CachedDict(redis)["access_token"])

(***************************************************************************)
(* The claim about two threads, under SpecRace.                            *)
(***************************************************************************)
\* C14: get_token() is guarded by no lock: whatever the other thread is
\* doing, a thread can always take its next step; and a thread sends its
\* refresh grant only after it has observed a miss of the cache.  So two
\* threads can both have observed a miss and both have sent a refresh
\* grant, neither having cached its answer yet (the state C14_Witness).
C14_GetTokenTakesNoLock ==
    \A th \in Threads :
        /\ thread_step(th, threads, now, redis, redis_conn) # {}
        /\ threads[th].calls \in {<<>>, <<"token:refresh_token">>}
        /\ threads[th].pc \in {"refresh", "post", "cache"} => threads[th].miss
        /\ threads[th].calls # <<>> => threads[th].miss

\* both threads have observed a cache miss and both have sent a refresh
\* grant that the token endpoint answered; neither has written its answer
C14_Witness ==
    \A th \in Threads :
        /\ threads[th].miss
        /\ threads[th].calls = <<"token:refresh_token">>
        /\ threads[th].pc = "cache"

====
